---- MODULE Spec2Model ----
(***************************************************************************)
(* State-machine model of VecTask (maniptrans_envs/lib/envs/core/          *)
(* vec_task.py): the buffer allocation, the control step, reset_done and   *)
(* the domain-randomization scheduler apply_randomizations.                *)
(*                                                                         *)
(* Floating-point values are fixed-point integers in hundredths            *)
(* (Unit = 1.0); rounding of the float arithmetic is not modelled.         *)
(* External collaborators (the subclass hooks pre_physics_step,            *)
(* post_physics_step, reset_idx, the physics backend and the random        *)
(* number generator) are inputs drawn from small sets.                     *)
(***************************************************************************)
EXTENDS Integers, Sequences, FiniteSets, TLC

\* ------------------------------------------------------------- bounds
NumEnvs == 2
MaxCalls == 3
MaxSchedCalls == 5
MaxNoiseCalls == 3
MaxCorrCalls == 3
MaxSimCalls == 4
MaxActorCalls == 4
MaxPassCalls == 4
MaxViewerCalls == 3
MaxEpisodeLength == 2

\* --------------------------------------------------- program constants
ControlFreqInv == 50
SchedSteps == 100

Unit == 10 * 10
Inf == 1000 * Unit

Envs == 0 .. (NumEnvs - 1)

Min(a, b) == IF a < b THEN a ELSE b

\* torch.clamp(x, -c, c)
ClampHi(x, c) == IF x > c THEN c ELSE x
Clamp(x, c) == IF x < -c THEN -c ELSE ClampHi(x, c)

\* fixed-point product of two hundredths values
Mul(a, b) == (a * b) \div Unit

VARIABLES
    phase,                \* "create_sim" (inside __init__, before prepare_sim) | "running"
    err,                  \* "none", or the exception that ended the process
    clip_obs, clip_actions,
    viewer,               \* whether a viewer window exists (headless == False)
    randomize,            \* cfg["task"]["randomize"]
    sim_initialized,
    control_steps,
    frame_count,          \* gym.get_frame_count(sim): simulate calls so far
    obs_dict, rew_buf, total_rew_buf, reset_buf, timeout_buf, progress_buf,
    running_progress_buf, randomize_buf, success_buf, failure_buf, error_buf,
    has_obs_buf, obs_buf, \* the subclass attribute read by step's observation noise
    extras,
    first_randomization, last_step, last_rand_step,
    dr_randomizations,    \* self.dr_randomizations: group name -> entry
    params_cfg,           \* the randomization_params mapping as loaded
    rand_freq,            \* dr_params["frequency"]
    actor_cfg,            \* dr_params["actor_params"][actor]
    actor_params_generator,
    prop_name,            \* the property kind named by dr_params["actor_params"][actor]
    handle,               \* find_actor_handle(env, actor) per instance
    props,                \* the simulation's live actor properties
    actor_scale,          \* the simulation's live actor scale
    original_props,
    pre_physics_arg,      \* the tensor last handed to pre_physics_step
    ret,                  \* what the last call returned
    reset_idx_calls,      \* arguments of the reset_idx calls of the last reset_done
    setup_applied,        \* per (instance, group): applications of a setup_only group so far
    last_pass,            \* what the last apply_randomizations call did
    step_in,              \* the action batch the last step call was given
    step_events,          \* the calls and updates the last step call made, in order
    last_call,            \* the public method called last
    EXISTING_SIM,         \* the module-level cache of _create_sim_once
    sim_log,              \* the _create_sim_once calls so far: arguments, whether
                          \* gym.create_sim was invoked, and what was returned
    calls                 \* public calls made so far (restarts at allocate_buffers)

cfgVars == <<clip_obs, clip_actions, viewer, randomize, params_cfg, rand_freq, actor_cfg,
             prop_name, handle, has_obs_buf>>
bufVars == <<obs_dict, rew_buf, total_rew_buf, reset_buf, timeout_buf, progress_buf,
             running_progress_buf, randomize_buf, success_buf, failure_buf, error_buf>>
drVars == <<first_randomization, last_step, last_rand_step, dr_randomizations,
            props, actor_scale, original_props, setup_applied, last_pass>>
stepVars == <<control_steps, frame_count, obs_buf, extras, pre_physics_arg, step_in,
              step_events>>
simVars == <<EXISTING_SIM, sim_log>>
vars == <<simVars, phase, err, sim_initialized, cfgVars, actor_params_generator, bufVars, drVars,
          stepVars, ret, reset_idx_calls, last_call, calls>>

\* ------------------------------------------------------------ buffers

NoBuf == << >>

\* A buffer row as a subclass hook writes it.
Row(obs, rew, total, reset, progress, running, rnd, succ, fail, error) ==
    [obs |-> obs, rew |-> rew, total_rew |-> total, reset |-> reset,
     progress |-> progress, running_progress |-> running, randomize |-> rnd,
     success |-> succ, failure |-> fail, error |-> error]

\* Rows post_physics_step may leave for an instance.
PostPhysicsRows ==
    { Row(0, 0, 0, 0, 0, 0, 0, FALSE, FALSE, FALSE),
      Row(5 * Unit, Unit, Unit, 1, MaxEpisodeLength - 1, 1, 1, TRUE, FALSE, FALSE),
      Row(-5 * Unit, 0, Unit, 1, 0, 2, 2, FALSE, TRUE, TRUE),
      Row(Unit \div 2, 0, 0, 0, MaxEpisodeLength, 2, 2, FALSE, FALSE, FALSE) }

\* Rows reset_idx may leave for an instance it resets.
ResetRows ==
    { Row(0, 0, 0, 0, 0, 0, 0, FALSE, FALSE, FALSE),
      Row(2 * Unit, 0, 0, 0, 0, 1, 1, FALSE, FALSE, FALSE) }

RowOf(i) ==
    Row(obs_dict[i], rew_buf[i], total_rew_buf[i], reset_buf[i], progress_buf[i],
        running_progress_buf[i], randomize_buf[i], success_buf[i], failure_buf[i],
        error_buf[i])

\* The buffers hold rows[i] for every i of its domain and are unchanged elsewhere.
WriteRows(rows) ==
    LET S == DOMAIN rows
        W(buf, f) == [i \in DOMAIN buf |-> IF i \in S THEN rows[i][f] ELSE buf[i]]
    IN  /\ obs_dict' = W(obs_dict, "obs")
        /\ rew_buf' = W(rew_buf, "rew")
        /\ total_rew_buf' = W(total_rew_buf, "total_rew")
        /\ reset_buf' = W(reset_buf, "reset")
        /\ progress_buf' = W(progress_buf, "progress")
        /\ running_progress_buf' = W(running_progress_buf, "running_progress")
        /\ randomize_buf' = W(randomize_buf, "randomize")
        /\ success_buf' = W(success_buf, "success")
        /\ failure_buf' = W(failure_buf, "failure")
        /\ error_buf' = W(error_buf, "error")

\* mutant: the reset flags are allocated with torch.zeros like the others
AllocResetZeros == [i \in Envs |-> 0]

\* allocate_buffers: torch.zeros / torch.ones of num_envs rows
AllocReset == [i \in Envs |-> 1]
AllocZeros == [i \in Envs |-> 0]
AllocFalse == [i \in Envs |-> FALSE]

allocate_buffers ==
    /\ obs_dict' = AllocZeros
    /\ rew_buf' = AllocZeros
    /\ total_rew_buf' = AllocZeros
    /\ reset_buf' = AllocReset
    /\ timeout_buf' = AllocZeros
    /\ progress_buf' = AllocZeros
    /\ running_progress_buf' = AllocZeros
    /\ randomize_buf' = AllocZeros
    /\ success_buf' = AllocFalse
    /\ failure_buf' = AllocFalse
    /\ error_buf' = AllocFalse
    /\ extras' = << >>

\* __init__ from prepare_sim on: the simulation is initialized, the buffers allocated
FinishInit ==
    /\ phase = "create_sim"
    /\ err = "none"
    /\ sim_initialized' = TRUE
    /\ allocate_buffers
    /\ obs_buf' = IF has_obs_buf THEN AllocZeros ELSE NoBuf
    /\ phase' = "running"
    /\ calls' = 0
    /\ UNCHANGED <<simVars, err, cfgVars, actor_params_generator, drVars, control_steps,
                   frame_count, pre_physics_arg, step_in, step_events, ret,
                   reset_idx_calls, last_call>>

\* ----------------------------------------------------------- reset_done

\* mutants: every instance is reported done; the flag is read inverted
DoneEnvIdsAll == DOMAIN reset_buf
DoneEnvIdsInverted == {i \in DOMAIN reset_buf : reset_buf[i] = 0}

\* reset_buf.nonzero().flatten()
DoneEnvIds == {i \in DOMAIN reset_buf : reset_buf[i] # 0}

NoRet == [op |-> "none"]

\* reset_idx(env_ids): the subclass hook; VecTask's own body is `pass` (rows = the
\* rows as they are). An override rewrites the rows of the ids it is given.
ResetIdxOutcomes(ids) ==
    { [i \in ids |-> RowOf(i)] } \cup [ids -> ResetRows]

ResetDone ==
    /\ phase = "running"
    /\ err = "none"
    /\ LET done_env_ids == DoneEnvIds
       IN  /\ IF done_env_ids # {}
              THEN /\ \E rows \in ResetIdxOutcomes(done_env_ids) : WriteRows(rows)
                   /\ reset_idx_calls' = <<done_env_ids>>
              ELSE /\ UNCHANGED <<obs_dict, rew_buf, total_rew_buf, reset_buf, progress_buf,
                                  running_progress_buf, randomize_buf, success_buf,
                                  failure_buf, error_buf>>
                   /\ reset_idx_calls' = << >>
           /\ ret' = [op |-> "reset_done", obs |-> obs_dict', done_env_ids |-> done_env_ids]
    /\ last_call' = "reset_done"
    /\ calls' = calls + 1
    /\ UNCHANGED <<simVars, phase, err, sim_initialized, cfgVars, actor_params_generator,
                   drVars, stepVars, timeout_buf>>

\* ------------------------------------------------- observation/action noise

GroupNames == <<"observations", "actions">>

Absent == [kind |-> "absent"]

\* One entry of the randomization_params mapping for observations or actions.
GroupCfg(dist, op, range, range_corr, sched) ==
    [kind |-> "cfg", distribution |-> dist, operation |-> op, range |-> range,
     range_correlated |-> range_corr, schedule |-> sched, schedule_steps |-> SchedSteps]

\* mutant: the linear factor is not capped at the threshold
LinearScalingUncapped(sched_step, step) == (Unit * step) \div sched_step

\* sched_scaling of a group at frame count `step`
LinearScaling(sched_step, step) == (Unit * Min(step, sched_step)) \div sched_step
ConstantScaling(sched_step, step) == IF step < sched_step THEN 0 ELSE Unit
SchedScaling(c, step) ==
    IF c.schedule = "linear" THEN LinearScaling(c.schedule_steps, step)
    ELSE IF c.schedule = "constant" THEN ConstantScaling(c.schedule_steps, step)
    ELSE Unit

\* dr_params[group].get("range_correlated", [0.0, 0.0])
RangeCorrelated(c) == IF c.range_correlated = << >> THEN <<0, 0>> ELSE c.range_correlated

\* x * sched_scaling
ScaleAdditive(x, s) == Mul(x, s)
\* x * sched_scaling + 1.0 * (1.0 - sched_scaling)
ScaleInterpolate(x, s) == Mul(x, s) + Mul(Unit, Unit - s)

\* operator.add if op_type == "additive" else operator.mul
OpOf(op_type) == IF op_type = "additive" THEN "add" ELSE "mul"

\* The entry stored in self.dr_randomizations[group]; `op` is the closure's operator
\* and `corr` the cached correlated sample (<< >>: not sampled yet).
BuildGaussian(c, s) ==
    LET rc == RangeCorrelated(c)
        add == c.operation = "additive"
    IN  [kind |-> "gaussian",
         mu |-> IF add THEN ScaleAdditive(c.range[1], s) ELSE ScaleInterpolate(c.range[1], s),
         var |-> ScaleAdditive(c.range[2], s),
         mu_corr |-> IF add THEN ScaleAdditive(rc[1], s) ELSE ScaleInterpolate(rc[1], s),
         var_corr |-> ScaleAdditive(rc[2], s),
         op |-> OpOf(c.operation), corr |-> << >>]

BuildUniform(c, s) ==
    LET rc == RangeCorrelated(c)
        add == c.operation = "additive"
        Sc(x) == IF add THEN ScaleAdditive(x, s) ELSE ScaleInterpolate(x, s)
    IN  [kind |-> "uniform",
         lo |-> Sc(c.range[1]), hi |-> Sc(c.range[2]),
         lo_corr |-> Sc(rc[1]), hi_corr |-> Sc(rc[2]),
         op |-> OpOf(c.operation), corr |-> << >>]

BuildGroup(c, step) ==
    IF c.distribution = "gaussian" THEN BuildGaussian(c, SchedScaling(c, step))
    ELSE BuildUniform(c, SchedScaling(c, step))

IsBuilt(e) == e.kind \in {"gaussian", "uniform"}

\* op(tensor, noise), elementwise
ApplyOp(op, x, noise) == IF op = "add" THEN x + noise ELSE Mul(x, noise)

\* The noise one element receives: the scaled correlated sample plus a fresh one.
NoiseOf(e, corr_raw, fresh) ==
    IF e.kind = "gaussian"
    THEN (Mul(corr_raw, e.var_corr) + e.mu_corr) + Mul(fresh, e.var) + e.mu
    ELSE (Mul(corr_raw, e.hi_corr - e.lo_corr) + e.lo_corr) + Mul(fresh, e.hi - e.lo) + e.lo

\* mutant: the correlated sample is drawn again on every call
CorrAfterRedrawn(e, corr_draw) == corr_draw

\* params["corr"] after a call of noise_lambda: sampled on the first call only
CorrAfter(e, corr_draw) == IF e.corr = << >> THEN corr_draw ELSE e.corr

\* noise_lambda(tensor)
NoiseLambda(e, tensor, corr_draw, fresh) ==
    [i \in DOMAIN tensor |->
        ApplyOp(e.op, tensor[i], NoiseOf(e, CorrAfter(e, corr_draw)[i], fresh[i]))]

\* ------------------------------------------------------------------ step

dict_obs_cls == TRUE

\* mutant: the reset flag is not consulted
TimeoutOfNoReset(progress, reset) ==
    IF progress >= MaxEpisodeLength - 1 THEN 1 ELSE 0

\* (progress_buf >= max_episode_length - 1) & (reset_buf != 0), as 0/1
TimeoutOf(progress, reset) ==
    IF progress >= MaxEpisodeLength - 1 /\ reset # 0 THEN 1 ELSE 0

\* mutant: the mask is the negated error flag
ErrorMasksFromFlags(errors) == [i \in DOMAIN errors |-> IF errors[i] THEN 0 ELSE 1]

\* torch.ones_like((~error_buf).float())
ErrorMasks(errors) == [i \in DOMAIN errors |-> 1]

\* The observations step hands back: obs_dict as it is, or (not dict_obs_cls) the
\* clamped obs_buf.
ReturnedObs(dict, buf) ==
    IF dict_obs_cls THEN dict ELSE [i \in DOMAIN buf |-> Clamp(buf[i], clip_obs)]

\* One entry of the event list of a step call: `event`, `times` times in a row.
Run(e, n) == [event |-> e, times |-> n]

\* mutant: the substep loop runs one time too few
SimulateCallsOneShort == ControlFreqInv - 1

\* for i in range(self.control_freq_inv): ... self.gym.simulate(self.sim)
SimulateCalls == ControlFreqInv

\* What step does between the clamp and the observation noise, in program order.
StepEvents ==
    <<Run("pre_physics_step", 1), Run("simulate", SimulateCalls),
      Run("post_physics_step", 1), Run("control_steps", 1), Run("timeout_buf", 1)>>

\* d[k] = v
Put(d, k, v) == [x \in DOMAIN d \cup {k} |-> IF x = k THEN v ELSE d[x]]

\* self.extras as post_physics_step leaves it: the hook reports the successes in
\* an entry of its own, and one that flags an error also writes a time_outs entry.
ExtrasAfterHook(old, rows) ==
    LET e1 == Put(old, "successes", [i \in DOMAIN rows |-> rows[i].success])
    IN  IF \E i \in DOMAIN rows : rows[i].error
        THEN Put(e1, "time_outs", [i \in DOMAIN rows |-> 1])
        ELSE e1

\* mutant: the two entries are only written when the dict does not hold them yet
StepExtrasSetDefault(left, timeouts, errors) ==
    LET e1 == IF "time_outs" \in DOMAIN left THEN left ELSE Put(left, "time_outs", timeouts)
    IN  IF "error_masks" \in DOMAIN e1 THEN e1 ELSE Put(e1, "error_masks", ErrorMasks(errors))

\* self.extras["time_outs"] = ...; self.extras["error_masks"] = ...
StepExtras(left, timeouts, errors) ==
    Put(Put(left, "time_outs", timeouts), "error_masks", ErrorMasks(errors))

\* mutant: the action batch is handed on without the clamp
ClampActionsSkipped(actions) == actions

\* torch.clamp(actions, -clip_actions, clip_actions)
ClampActions(actions) == [i \in DOMAIN actions |-> Clamp(actions[i], clip_actions)]

\* The action tensor handed to pre_physics_step.
ActionTensor(ea, actions, corr_draw, fresh) ==
    ClampActions(IF IsBuilt(ea) THEN NoiseLambda(ea, actions, corr_draw, fresh)
                 ELSE actions)

\* The process ends with exception e; nothing else changes.
Raise(e) ==
    /\ err' = e
    /\ UNCHANGED <<simVars, phase, sim_initialized, cfgVars, actor_params_generator,
                   bufVars, drVars, stepVars, ret, reset_idx_calls, last_call, calls>>

\* step(actions): `rows` is what post_physics_step leaves in the buffers, the draws
\* are the random tensors the two noise transforms sample.
Step(actions, rows, corr_a, fresh_a, corr_o, fresh_o) ==
    /\ phase = "running"
    /\ err = "none"
    /\ LET ea == dr_randomizations["actions"]
           eo == dr_randomizations["observations"]
           dr1 == IF IsBuilt(ea)
                  THEN [dr_randomizations EXCEPT !["actions"].corr = CorrAfter(ea, corr_a)]
                  ELSE dr_randomizations
           filled == [i \in Envs |-> rows[i].obs]
       IN  IF ea.kind = "cfg"
           THEN Raise("KeyError")  \* no "noise_lambda" in a configuration entry
           ELSE /\ step_in' = actions
                /\ last_call' = "step"
                /\ pre_physics_arg' = ActionTensor(ea, actions, corr_a, fresh_a)
                /\ frame_count' = frame_count + SimulateCalls
                /\ step_events' = StepEvents
                /\ WriteRows(rows)
                /\ control_steps' = control_steps + 1
                /\ timeout_buf' = [i \in Envs |-> TimeoutOf(progress_buf'[i], reset_buf'[i])]
                /\ calls' = calls + 1
                /\ UNCHANGED <<simVars, phase, sim_initialized, cfgVars,
                               actor_params_generator,
                               reset_idx_calls, first_randomization, last_step, last_rand_step, props,
                               actor_scale, original_props, setup_applied, last_pass>>
                /\ IF eo.kind = "cfg" \/ (IsBuilt(eo) /\ ~has_obs_buf)
                   THEN /\ err' = IF eo.kind = "cfg" THEN "KeyError" ELSE "AttributeError"
                        /\ dr_randomizations' = dr1
                        /\ obs_buf' = IF has_obs_buf THEN filled ELSE obs_buf
                        /\ extras' = ExtrasAfterHook(extras, rows)
                        /\ UNCHANGED ret
                   ELSE /\ err' = err
                        /\ dr_randomizations' =
                              IF IsBuilt(eo)
                              THEN [dr1 EXCEPT !["observations"].corr = CorrAfter(eo, corr_o)]
                              ELSE dr1
                        /\ obs_buf' = IF ~has_obs_buf THEN obs_buf
                                      ELSE IF IsBuilt(eo)
                                           THEN NoiseLambda(eo, filled, corr_o, fresh_o)
                                           ELSE filled
                        /\ extras' = StepExtras(ExtrasAfterHook(extras, rows),
                                                timeout_buf', error_buf')
                        /\ ret' = [op |-> "step",
                                   obs |-> ReturnedObs(obs_dict', obs_buf'),
                                   rew |-> rew_buf', reset |-> reset_buf',
                                   extras |-> extras']

\* step(actions) in which render() finds the viewer window closed (or a QUIT event)
\* and calls sys.exit(): `done` simulate calls of the substep loop have completed.
StepExit(actions, corr_a, fresh_a, done) ==
    /\ phase = "running"
    /\ err = "none"
    /\ viewer
    /\ dr_randomizations["actions"].kind # "cfg"
    /\ LET ea == dr_randomizations["actions"]
       IN  /\ pre_physics_arg' = ActionTensor(ea, actions, corr_a, fresh_a)
           /\ dr_randomizations' =
                 IF IsBuilt(ea)
                 THEN [dr_randomizations EXCEPT !["actions"].corr = CorrAfter(ea, corr_a)]
                 ELSE dr_randomizations
    /\ step_in' = actions
    /\ last_call' = "step"
    /\ frame_count' = frame_count + done
    /\ step_events' = <<Run("pre_physics_step", 1), Run("simulate", done)>>
    /\ err' = "SystemExit"
    /\ calls' = calls + 1
    /\ UNCHANGED <<simVars, phase, sim_initialized, cfgVars, actor_params_generator,
                   bufVars, control_steps, obs_buf, extras, ret, reset_idx_calls,
                   first_randomization, last_step, last_rand_step, props, actor_scale,
                   original_props, setup_applied, last_pass>>

\* ----------------------------------------------------------- actor config

Attrs == {"friction", "restitution"}
Groups == Attrs \cup {"scale"}

\* The value every actor property of instance i has before any randomization.
BaseProp(i) == 10 + i

AttrCfg(op, setup_only) == [kind |-> "cfg", operation |-> op, setup_only |-> setup_only]

NoPass == [kind |-> "none"]
NoGroups == [g \in {"observations", "actions"} |-> Absent]

\* ------------------------------------------------------- _create_sim_once

\* EXISTING_SIM = None; a simulation handle is a positive number
None == 0

\* gym.create_sim was invoked by the k-th call
Invocations == {k \in DOMAIN sim_log : sim_log[k].invoked}

\* mutant: the cache is used only for the arguments it was filled with
CachedForSameArgs(args) ==
    EXISTING_SIM # None /\ \E k \in Invocations : sim_log[k].args = args

\* if EXISTING_SIM is not None
Cached(args) == EXISTING_SIM # None

\* _create_sim_once(gym, *args): `created` is what gym.create_sim would return
CreateSimOnceResult(args, created) == IF Cached(args) THEN EXISTING_SIM ELSE created

CreateSimOnce(args, created) ==
    /\ EXISTING_SIM' = CreateSimOnceResult(args, created)
    /\ sim_log' = Append(sim_log, [args |-> args, invoked |-> ~Cached(args),
                                   ret |-> CreateSimOnceResult(args, created)])

\* gym.create_sim fails (None) or returns a handle no earlier call returned
BackendResults == {None, Cardinality(Invocations) + 1}

\* (compute_device, graphics_device), physics engine and parameters as one value
SimArgs == {0, 1}

\* _create_sim_once called by any code of the process (another environment's
\* constructor included: the cache belongs to the module)
CallCreateSimOnce ==
    /\ err = "none"
    /\ \E args \in SimArgs, created \in BackendResults : CreateSimOnce(args, created)
    /\ UNCHANGED <<phase, err, sim_initialized, cfgVars, actor_params_generator, bufVars,
                   drVars, stepVars, ret, reset_idx_calls, last_call, calls>>

\* VecTask.create_sim, called by the subclass's create_sim inside __init__:
\* quit() when no simulation was obtained
CreateSim ==
    /\ phase = "create_sim"
    /\ err = "none"
    /\ \E args \in SimArgs, created \in BackendResults : CreateSimOnce(args, created)
    /\ err' = IF EXISTING_SIM' = None THEN "SystemExit" ELSE err
    /\ UNCHANGED <<phase, sim_initialized, cfgVars, actor_params_generator, bufVars,
                   drVars, stepVars, ret, reset_idx_calls, last_call, calls>>

\* ------------------------------------------------------------------ Init

\* The state inside __init__ right before create_sim (lines 307-322), for the
\* configuration held by the configuration variables.
\* self.cfg["task"]["randomization_params"] as it is now: with randomize set,
\* self.dr_randomizations is that very dict.
ConfigMapping == IF randomize THEN dr_randomizations ELSE params_cfg

InitState ==
    /\ phase = "create_sim"
    /\ err = "none"
    /\ sim_initialized = FALSE
    /\ control_steps = 0
    /\ frame_count = 0
    /\ obs_dict = NoBuf /\ rew_buf = NoBuf /\ total_rew_buf = NoBuf
    /\ reset_buf = NoBuf /\ timeout_buf = NoBuf /\ progress_buf = NoBuf
    /\ running_progress_buf = NoBuf /\ randomize_buf = NoBuf
    /\ success_buf = NoBuf /\ failure_buf = NoBuf /\ error_buf = NoBuf
    /\ obs_buf = NoBuf
    /\ extras = << >>
    /\ first_randomization = TRUE
    /\ last_step = -1
    /\ last_rand_step = -1
    /\ dr_randomizations = IF randomize THEN params_cfg ELSE NoGroups
    /\ actor_params_generator = FALSE
    /\ step_events = << >>
    /\ props = [i \in Envs |-> [a \in Attrs |-> BaseProp(i)]]
    /\ actor_scale = [i \in Envs |-> 1]
    /\ original_props = [i \in Envs |-> << >>]
    /\ setup_applied = [i \in Envs |-> [g \in Groups |-> 0]]
    /\ last_pass = NoPass
    /\ pre_physics_arg = << >>
    /\ ret = NoRet
    /\ reset_idx_calls = << >>
    /\ step_in = << >>
    /\ last_call = "none"
    /\ calls = 0
    /\ EXISTING_SIM = None
    /\ sim_log = << >>

\* Action batches a policy may hand to step (num_actions = 1).
ActionBatches ==
    { [i \in Envs |-> 5 * Unit],
      [i \in Envs |-> IF i % 2 = 0 THEN -5 * Unit ELSE Unit \div 2] }
ZeroDraw == [i \in Envs |-> 0]

\* ---- the stepper and the reset coordinator, no randomization configured
Init ==
    /\ clip_obs \in {Unit, Inf}
    /\ clip_actions \in {Unit, Inf}
    /\ randomize = FALSE
    /\ params_cfg = NoGroups
    /\ rand_freq = 1
    /\ actor_cfg = [scale |-> Absent, attrs |-> [a \in Attrs |-> AttrCfg("additive", FALSE)]]
    /\ handle = [i \in Envs |-> 0]
    /\ has_obs_buf = FALSE
    /\ viewer = FALSE
    /\ prop_name = "rigid_shape_properties"
    /\ InitState

StepEnv ==
    /\ calls < MaxCalls
    /\ \E actions \in ActionBatches, rows \in [Envs -> PostPhysicsRows] :
          Step(actions, rows, ZeroDraw, ZeroDraw, ZeroDraw, ZeroDraw)

ResetDoneEnv == calls < MaxCalls /\ ResetDone

Next == FinishInit \/ StepEnv \/ ResetDoneEnv

Spec == Init /\ [][Next]_vars

\* ------------------------------------------------- apply_randomizations

\* generate_random_samples: the samples of one pass follow one of these streams.
SampleStreams == {"low", "high", "mixed"}
DrawIndex(i, g) == 3 * i + (IF g = "scale" THEN 0 ELSE IF g = "friction" THEN 1 ELSE 2)
SampleAt(stream, k) ==
    IF stream = "low" THEN 2
    ELSE IF stream = "high" THEN 3
    ELSE IF k % 2 = 0 THEN 2 ELSE 3

\* mutant: the reset flags are not consulted
RandEnvsAnyTime == {i \in DOMAIN randomize_buf : randomize_buf[i] >= rand_freq}

\* rand_envs: randomize_buf >= rand_freq, and-ed with reset_buf
RandEnvs ==
    {i \in DOMAIN randomize_buf : randomize_buf[i] >= rand_freq /\ reset_buf[i] # 0}

\* env_ids: every instance on the first call, the eligible ones afterwards
EnvIds == IF first_randomization THEN Envs ELSE RandEnvs

\* mutant: the elapsed frames must exceed the frequency
DoNonenvRandomizeStrict(step) ==
    first_randomization \/ (step - last_rand_step) > rand_freq

DoNonenvRandomize(step) ==
    first_randomization \/ (step - last_rand_step) >= rand_freq

\* dr_params[group]: the caller's mapping is self.dr_randomizations itself (alias:
\* both names hold the configuration's own dict) or a mapping with the loaded values.
DrParams(alias, dr, g) == IF alias THEN dr[g] ELSE params_cfg[g]

\* The operator the noise_lambda closures of one pass apply: they all read the one
\* local variable `op`, which holds what the last rebuilt group assigned.
ClosureOp(built_obs, built_act, op_obs, op_act) ==
    IF built_act THEN op_act ELSE op_obs

\* The loop over ["observations", "actions"]: self.dr_randomizations after it, and
\* whether it raised KeyError (a dr_params entry that is no configuration entry).
NoiseAfter(alias, do, step) ==
    LET dr0 == dr_randomizations
        e1 == DrParams(alias, dr0, "observations")
        hit1 == do /\ e1.kind # "absent"
        bad1 == hit1 /\ e1.kind # "cfg"
        built1 == hit1 /\ ~bad1
        dr1 == IF built1 THEN [dr0 EXCEPT !["observations"] = BuildGroup(e1, step)] ELSE dr0
        e2 == DrParams(alias, dr1, "actions")
        hit2 == ~bad1 /\ do /\ e2.kind # "absent"
        bad2 == hit2 /\ e2.kind # "cfg"
        built2 == hit2 /\ ~bad2
        dr2 == IF built2 THEN [dr1 EXCEPT !["actions"] = BuildGroup(e2, step)] ELSE dr1
        cell == ClosureOp(built1, built2,
                          IF built1 THEN dr2["observations"].op ELSE "add",
                          IF built2 THEN dr2["actions"].op ELSE "add")
    IN  [dr |-> [g \in DOMAIN dr2 |->
                    IF (g = "observations" /\ built1) \/ (g = "actions" /\ built2)
                    THEN [dr2[g] EXCEPT !.op = cell] ELSE dr2[g]],
         raised |-> bad1 \/ bad2,
         rebuilt |-> {g \in DOMAIN dr2 : (g = "observations" /\ built1)
                                         \/ (g = "actions" /\ built2)}]

\* mutant: the setup_only flag is not consulted
AppliesAlways(c) == TRUE

\* (setup_only and not self.sim_initialized) or not setup_only
Applies(c) == (c.setup_only /\ ~sim_initialized) \/ ~c.setup_only

\* apply_random_samples(p, og_p, attr, ...): the attribute's new value
ApplyRandomSample(og, c, sample) ==
    IF c.operation = "additive" THEN og + sample ELSE og * sample

\* new_scale from og_scale = 1
NewScale(c, sample) == IF c.operation = "scaling" THEN 1 * sample ELSE 1 + sample

\* mutant: the snapshot is taken again in every pass
SnapshotTakenEveryPass == TRUE

\* self.original_props[prop_name][f"{env_id}_{handle}"] as the pass reads it
SnapshotTaken == first_randomization
Snapshot(i) == IF SnapshotTaken THEN props[i] ELSE original_props[i]

\* mutant: the handle lookup result is not checked
ProcessedAnyHandle(do, env_ids) == {i \in env_ids : do}

\* The instances whose actor the pass works on.
Processed(do, env_ids) == {i \in env_ids : do /\ handle[i] # -1}

\* the property list after the loop over its attributes
Sampled(i, stream) ==
    [a \in Attrs |->
        IF Applies(actor_cfg.attrs[a])
        THEN ApplyRandomSample(Snapshot(i)[a], actor_cfg.attrs[a],
                               SampleAt(stream, DrawIndex(i, a)))
        ELSE props[i][a]]

\* mutant: the setter is called whatever attributes were skipped
SetRandomPropertiesAlways == TRUE

SetRandomProperties == \A a \in Attrs : Applies(actor_cfg.attrs[a])

ScaleApplies == actor_cfg.scale.kind # "absent" /\ Applies(actor_cfg.scale)

\* get_property_getter_map(gym): the property kinds that have a getter and a setter
ParamGetters == {"dof_properties", "rigid_body_properties", "rigid_shape_properties"}

\* param_getters_map[prop_name] raises KeyError for a kind the map does not hold;
\* the instance the loop reaches first is the one it is raised for
FirstOf(P) == CHOOSE i \in P : \A j \in P : i <= j
GetterMissing(P) == P # {} /\ prop_name \notin ParamGetters

\* the registered getters that return a list of sub-properties; the getter of
\* dof_properties returns one array
ListGetters == {"rigid_body_properties", "rigid_shape_properties"}

\* isinstance(prop, list) is false: assert False, "Not implemented"
NotList(P) == P # {} /\ prop_name \in ParamGetters \ ListGetters

\* The actor loop up to the error: the first instance has had its scale set
\* (scale precedes the property kind in the actor's mapping), nothing else is done.
ActorPassUnregistered(P, stream) ==
    LET i0 == FirstOf(P)
    IN  /\ actor_scale' = [i \in Envs |->
                              IF i = i0 /\ ScaleApplies
                              THEN NewScale(actor_cfg.scale, SampleAt(stream, DrawIndex(i, "scale")))
                              ELSE actor_scale[i]]
        /\ setup_applied' = [i \in Envs |-> [g \in Groups |->
                                IF i = i0 /\ g = "scale" /\ ScaleApplies
                                   /\ actor_cfg.scale.setup_only
                                THEN setup_applied[i][g] + 1
                                ELSE setup_applied[i][g]]]
        /\ UNCHANGED <<props, original_props>>

\* mutant: the unimplemented external-sampler path does not stop the pass
ExternSamplerFailsNever == FALSE

\* if self.actor_params_generator is not None: assert False, "Not implemented"
ExternSamplerFails == actor_params_generator

ActorPass(do, env_ids, stream) ==
    LET P == Processed(do, env_ids)
    IN  /\ original_props' = [i \in Envs |->
                                IF i \in P /\ SnapshotTaken THEN props[i]
                                ELSE original_props[i]]
        /\ props' = [i \in Envs |->
                        IF i \in P /\ SetRandomProperties THEN Sampled(i, stream)
                        ELSE props[i]]
        /\ actor_scale' = [i \in Envs |->
                              IF i \in P /\ ScaleApplies
                              THEN NewScale(actor_cfg.scale, SampleAt(stream, DrawIndex(i, "scale")))
                              ELSE actor_scale[i]]
        /\ setup_applied' = [i \in Envs |-> [g \in Groups |->
                                IF i \in P
                                   /\ (IF g = "scale" THEN ScaleApplies /\ actor_cfg.scale.setup_only
                                       ELSE Applies(actor_cfg.attrs[g])
                                            /\ actor_cfg.attrs[g].setup_only)
                                THEN setup_applied[i][g] + 1
                                ELSE setup_applied[i][g]]]

ApplyRandomizations(alias, stream) ==
    /\ err = "none"
    /\ alias => randomize
    /\ last_call' = "apply_randomizations"
    /\ calls' = calls + 1
    /\ last_step' = frame_count
    /\ UNCHANGED <<simVars, phase, sim_initialized, cfgVars, actor_params_generator,
                   stepVars, ret, reset_idx_calls, obs_dict, rew_buf, total_rew_buf, reset_buf, timeout_buf, progress_buf,
                   running_progress_buf, success_buf, failure_buf, error_buf>>
    /\ IF phase = "create_sim" /\ ~first_randomization
       THEN \* self.randomize_buf does not exist before allocate_buffers
            /\ err' = "AttributeError"
            /\ UNCHANGED <<randomize_buf, last_rand_step, dr_randomizations,
                           first_randomization, props, actor_scale, original_props,
                           setup_applied, last_pass>>
       ELSE LET step == frame_count
                do == DoNonenvRandomize(step)
                env_ids == EnvIds
                noise == NoiseAfter(alias, do, step)
                stopped == noise.raised \/ ExternSamplerFails
                P == Processed(do, env_ids)
            IN  /\ randomize_buf' = IF first_randomization THEN randomize_buf
                                    ELSE [i \in Envs |-> IF i \in env_ids THEN 0
                                                         ELSE randomize_buf[i]]
                /\ last_rand_step' = IF do THEN step ELSE last_rand_step
                /\ dr_randomizations' = noise.dr
                /\ last_pass' = [kind |-> "pass", first |-> first_randomization,
                                 initialized |-> sim_initialized, do_nonenv |-> do,
                                 env_ids |-> env_ids, stream |-> stream, step |-> step,
                                 rebuilt |-> noise.rebuilt,
                                 processed |-> IF stopped THEN {}
                                               ELSE IF GetterMissing(P) \/ NotList(P)
                                               THEN {FirstOf(P)}
                                               ELSE P]
                /\ IF stopped
                   THEN /\ err' = IF noise.raised THEN "KeyError" ELSE "AssertionError"
                        /\ UNCHANGED <<first_randomization, props, actor_scale,
                                       original_props, setup_applied>>
                   ELSE IF GetterMissing(P) \/ NotList(P)
                   THEN /\ err' = IF GetterMissing(P) THEN "KeyError" ELSE "AssertionError"
                        /\ ActorPassUnregistered(P, stream)
                        /\ UNCHANGED first_randomization
                   ELSE /\ err' = err
                        /\ ActorPass(do, env_ids, stream)
                        /\ first_randomization' = FALSE

\* ---- the schedule of the noise groups: passes at frame counts 0 .. 4 steps
UniformRanges == {<<-Unit, Unit>>, <<Unit, 3 * Unit>>}
Schedules == {"linear", "constant", "none"}
Operations == {"additive", "scaling"}
Distributions == {"gaussian", "uniform"}

GroupCfgs ==
    { GroupCfg(d, o, r, << >>, s) :
        d \in Distributions, o \in Operations, r \in UniformRanges, s \in Schedules }

TrivialActor ==
    [scale |-> Absent, attrs |-> [a \in Attrs |-> AttrCfg("additive", FALSE)]]

InitSched ==
    /\ clip_obs = Inf
    /\ clip_actions = Inf
    /\ randomize \in BOOLEAN
    /\ params_cfg \in { [observations |-> o, actions |-> a] :
                          o \in {Absent, GroupCfg("uniform", "additive", <<-Unit, Unit>>,
                                                  << >>, "linear")},
                          a \in GroupCfgs }
    /\ rand_freq = 1
    /\ actor_cfg = TrivialActor
    /\ handle = [i \in Envs |-> 0]
    /\ has_obs_buf = TRUE
    /\ viewer = FALSE
    /\ prop_name = "rigid_shape_properties"
    /\ InitState

OneRowBatch == [i \in Envs |-> Row(0, 0, 0, 0, 0, 0, 0, FALSE, FALSE, FALSE)]
OneActionBatch == [i \in Envs |-> Unit \div 2]

StepSched ==
    /\ calls < MaxSchedCalls
    /\ Step(OneActionBatch, OneRowBatch, ZeroDraw, ZeroDraw, ZeroDraw, ZeroDraw)

ApplySched ==
    /\ calls < MaxSchedCalls
    /\ \E alias \in BOOLEAN : ApplyRandomizations(alias, "low")

NextSched == FinishInit \/ StepSched \/ ApplySched

SpecSched == InitSched /\ [][NextSched]_vars

\* ---- action noise in step: every configuration of the actions group, with the
\* random tensors the transform draws
RandnBatches == { [i \in Envs |-> d] : d \in {-Unit, 0, Unit} }
RandBatches == { [i \in Envs |-> d] : d \in {0, Unit \div 2} }

InitNoise ==
    /\ clip_obs = Inf
    /\ clip_actions \in {Unit, Inf}
    /\ randomize \in BOOLEAN
    /\ params_cfg \in { [observations |-> Absent, actions |-> a] :
                          a \in {Absent} \cup GroupCfgs }
    /\ rand_freq = 1
    /\ actor_cfg = TrivialActor
    /\ handle = [i \in Envs |-> 0]
    /\ has_obs_buf = TRUE
    /\ viewer = FALSE
    /\ prop_name = "rigid_shape_properties"
    /\ InitState

\* torch.randn_like for the correlated sample; randn_like (gaussian) or rand_like
\* (uniform) for the fresh one
FreshBatches(e) == IF e.kind = "gaussian" THEN RandnBatches ELSE RandBatches

StepNoise ==
    /\ calls < MaxNoiseCalls
    /\ \E actions \in ActionBatches \cup {OneActionBatch} :
          IF IsBuilt(dr_randomizations["actions"])
          THEN \E corr \in RandnBatches, fresh \in FreshBatches(dr_randomizations["actions"]) :
                  Step(actions, OneRowBatch, corr, fresh, ZeroDraw, ZeroDraw)
          ELSE Step(actions, OneRowBatch, ZeroDraw, ZeroDraw, ZeroDraw, ZeroDraw)

ApplyNoise ==
    /\ calls < MaxNoiseCalls
    /\ \E alias \in BOOLEAN : ApplyRandomizations(alias, "low")

NextNoise == FinishInit \/ StepNoise \/ ApplyNoise

SpecNoise == InitNoise /\ [][NextNoise]_vars

\* ---- action noise of groups that configure range_correlated themselves
CorrelatedRanges == { <<0, 0>>, <<0, Unit>>, <<-Unit, Unit>> }

CorrCfgs ==
    { GroupCfg(d, o, <<0, Unit>>, rc, s) :
        d \in Distributions, o \in Operations, rc \in CorrelatedRanges, s \in Schedules }

InitCorr ==
    /\ clip_obs = Inf
    /\ clip_actions = Inf
    /\ randomize = FALSE
    /\ params_cfg \in { [observations |-> Absent, actions |-> a] : a \in CorrCfgs }
    /\ rand_freq = 1
    /\ actor_cfg = TrivialActor
    /\ handle = [i \in Envs |-> 0]
    /\ has_obs_buf = TRUE
    /\ viewer = FALSE
    /\ prop_name = "rigid_shape_properties"
    /\ InitState

StepCorr ==
    /\ calls < MaxCorrCalls
    /\ \E actions \in {ZeroDraw, OneActionBatch} :
          IF IsBuilt(dr_randomizations["actions"])
          THEN \E corr \in RandnBatches, fresh \in FreshBatches(dr_randomizations["actions"]) :
                  Step(actions, OneRowBatch, corr, fresh, ZeroDraw, ZeroDraw)
          ELSE Step(actions, OneRowBatch, ZeroDraw, ZeroDraw, ZeroDraw, ZeroDraw)

ApplyCorr ==
    /\ calls < MaxCorrCalls
    /\ ApplyRandomizations(FALSE, "low")

NextCorr == FinishInit \/ StepCorr \/ ApplyCorr

SpecCorr == InitCorr /\ [][NextCorr]_vars

\* ---- the simulation cache: calls of _create_sim_once from the constructor and
\* from elsewhere in the process
InitSim ==
    /\ clip_obs = Inf
    /\ clip_actions = Inf
    /\ randomize = FALSE
    /\ params_cfg = NoGroups
    /\ rand_freq = 1
    /\ actor_cfg = TrivialActor
    /\ handle = [i \in Envs |-> 0]
    /\ has_obs_buf = TRUE
    /\ viewer = FALSE
    /\ prop_name = "rigid_shape_properties"
    /\ InitState

CreateSimSim == Len(sim_log) < MaxSimCalls /\ CreateSim
CallCreateSimOnceSim == Len(sim_log) < MaxSimCalls /\ CallCreateSimOnce
FinishInitSim == EXISTING_SIM # None /\ FinishInit
StepSim ==
    /\ calls < MaxSimCalls
    /\ Step(OneActionBatch, OneRowBatch, ZeroDraw, ZeroDraw, ZeroDraw, ZeroDraw)

NextSim == CreateSimSim \/ CallCreateSimOnceSim \/ FinishInitSim \/ StepSim

SpecSim == InitSim /\ [][NextSim]_vars

\* ---- actor properties: passes inside create_sim and after it, over every
\* combination of operation and setup_only
ActorCfgs ==
    { [scale |-> sc, attrs |-> [friction |-> f, restitution |-> r]] :
        sc \in {Absent, AttrCfg("scaling", TRUE), AttrCfg("additive", FALSE)},
        f \in { AttrCfg(o, so) : o \in Operations, so \in BOOLEAN },
        r \in { AttrCfg("additive", so) : so \in BOOLEAN } }

\* find_actor_handle: the actor exists in every instance, or not in instance 0
Handles == { [i \in Envs |-> 0], [i \in Envs |-> IF i = 0 THEN -1 ELSE 0] }

InitActor ==
    /\ clip_obs = Inf
    /\ clip_actions = Inf
    /\ randomize = FALSE
    /\ params_cfg = NoGroups
    /\ rand_freq \in {1, 2}
    /\ actor_cfg \in ActorCfgs
    /\ handle \in Handles
    /\ has_obs_buf = FALSE
    /\ viewer = FALSE
    /\ prop_name = "rigid_shape_properties"
    /\ InitState

\* what post_physics_step leaves: the same row everywhere, or instance 0 due for
\* re-randomization alone
ActorRowBatches ==
    { [i \in Envs |-> r] : r \in PostPhysicsRows }
      \cup { [i \in Envs |-> IF i = 0 THEN Row(0, 0, 0, 1, 0, 2, 2, FALSE, FALSE, FALSE)
                                      ELSE Row(0, 0, 0, 0, 0, 0, 0, FALSE, FALSE, FALSE)] }

StepActor ==
    /\ calls < MaxActorCalls
    /\ \E rows \in ActorRowBatches :
          Step(OneActionBatch, rows, ZeroDraw, ZeroDraw, ZeroDraw, ZeroDraw)

ApplyActor ==
    /\ calls < MaxActorCalls
    /\ \E stream \in SampleStreams : ApplyRandomizations(FALSE, stream)

NextActor == FinishInit \/ StepActor \/ ApplyActor

SpecActor == InitActor /\ [][NextActor]_vars

\* ---- the pass itself: when it is due, and how it ends when the configuration
\* names the external sampler or a property kind without a getter
\* A subclass assigns self.actor_params_generator (None after line 311).
SetActorParamsGenerator ==
    /\ err = "none"
    /\ ~actor_params_generator
    /\ actor_params_generator' = TRUE
    /\ UNCHANGED <<simVars, phase, err, sim_initialized, cfgVars, bufVars, drVars,
                   stepVars, ret, reset_idx_calls, last_call, calls>>

ScaledActor ==
    [scale |-> AttrCfg("additive", FALSE), attrs |-> [a \in Attrs |-> AttrCfg("additive", FALSE)]]

PropNames == {"rigid_shape_properties", "dof_properties", "rigid_body_materials"}

Frequencies == {1, ControlFreqInv, ControlFreqInv + 1, 2 * ControlFreqInv}

InitPass ==
    /\ clip_obs = Inf
    /\ clip_actions = Inf
    /\ viewer = FALSE
    /\ randomize = FALSE
    /\ params_cfg \in { NoGroups,
                         [observations |-> Absent,
                          actions |-> GroupCfg("uniform", "additive", <<-Unit, Unit>>,
                                               << >>, "none")] }
    /\ rand_freq \in Frequencies
    /\ actor_cfg \in {TrivialActor, ScaledActor}
    /\ prop_name \in PropNames
    /\ handle \in Handles
    /\ has_obs_buf = FALSE
    /\ InitState

\* post_physics_step leaves every instance mid-episode, or every instance reset
\* with its randomize counter past every frequency
PassRowBatches ==
    { [i \in Envs |-> Row(0, 0, 0, 0, 0, 0, 0, FALSE, FALSE, FALSE)],
      [i \in Envs |-> Row(0, 0, 0, 1, 0, 0, 2 * ControlFreqInv, FALSE, FALSE, FALSE)] }

StepPass ==
    /\ calls < MaxPassCalls
    /\ \E rows \in PassRowBatches :
          Step(OneActionBatch, rows, ZeroDraw, ZeroDraw, ZeroDraw, ZeroDraw)

ApplyPass ==
    /\ calls < MaxPassCalls
    /\ \E stream \in {"low", "high"} : ApplyRandomizations(FALSE, stream)

NextPass == FinishInit \/ StepPass \/ ApplyPass \/ SetActorParamsGenerator

SpecPass == InitPass /\ [][NextPass]_vars

\* ---- the control step with and without a viewer window
InitViewer ==
    /\ clip_obs = Inf
    /\ clip_actions = Unit
    /\ viewer \in BOOLEAN
    /\ randomize = FALSE
    /\ params_cfg = NoGroups
    /\ rand_freq = 1
    /\ actor_cfg = TrivialActor
    /\ prop_name = "rigid_shape_properties"
    /\ handle = [i \in Envs |-> 0]
    /\ has_obs_buf \in BOOLEAN
    /\ InitState

\* simulate calls completed when the quit is seen: none, one, all but the last
QuitAfter == {0, 1, SimulateCalls - 1}

StepViewer ==
    /\ calls < MaxViewerCalls
    /\ \E actions \in ActionBatches, rows \in ActorRowBatches :
          Step(actions, rows, ZeroDraw, ZeroDraw, ZeroDraw, ZeroDraw)

StepExitViewer ==
    /\ calls < MaxViewerCalls
    /\ \E actions \in ActionBatches, done \in QuitAfter :
          StepExit(actions, ZeroDraw, ZeroDraw, done)

ResetDoneViewer == calls < MaxViewerCalls /\ ResetDone

NextViewer == FinishInit \/ StepViewer \/ StepExitViewer \/ ResetDoneViewer

SpecViewer == InitViewer /\ [][NextViewer]_vars

\* ================================================================ claims

Stepped == last_call = "step" /\ err = "none"

\* C1: after every step call, timeout[i] is set exactly when progress[i] >=
\* max_episode_length - 1 and reset[i] != 0, both as post_physics_step left them in
\* that step; so a set timeout flag implies a set reset flag.
C1_TimeoutIffProgressAndReset ==
    Stepped =>
        \A i \in Envs :
            /\ (timeout_buf[i] # 0) <=>
                   (progress_buf[i] >= MaxEpisodeLength - 1 /\ reset_buf[i] # 0)
            /\ (timeout_buf[i] # 0) => (reset_buf[i] # 0)
            /\ extras.time_outs[i] = timeout_buf[i]

\* a step after which one instance timed out while another did not, although its
\* reset flag was set or its progress had passed the limit
C1_Witness ==
    /\ Stepped
    /\ \E i, j \in Envs :
          /\ timeout_buf[i] # 0
          /\ timeout_buf[j] = 0
          /\ (reset_buf[j] # 0 \/ progress_buf[j] >= MaxEpisodeLength - 1)

\* C7: reset_done computes the done ids as exactly the instances whose reset flag is
\* non-zero, calls reset_idx once with that set (not at all when it is empty) and
\* returns the observation dict with those ids.
C7_ResetDoneIds ==
    [][ (last_call' = "reset_done" /\ calls' = calls + 1) =>
            LET ids == {i \in Envs : reset_buf[i] # 0}
            IN  /\ ret'.op = "reset_done"
                /\ ret'.done_env_ids = ids
                /\ reset_idx_calls' = IF ids = {} THEN << >> ELSE <<ids>>
                /\ ret'.obs = obs_dict' ]_vars

\* reset_done has reset a proper, non-empty subset
C7_Witness ==
    /\ last_call = "reset_done"
    /\ ret.done_env_ids # {}
    /\ ret.done_env_ids # Envs
    /\ Len(reset_idx_calls) = 1

\* C8: reset_done leaves every buffer row of every instance outside the reset set S
\* as it was before the call.
C8_RowIsolation ==
    [][ (last_call' = "reset_done" /\ calls' = calls + 1) =>
            \A i \in Envs :
                reset_buf[i] = 0 =>
                    /\ obs_dict'[i] = obs_dict[i]
                    /\ rew_buf'[i] = rew_buf[i]
                    /\ total_rew_buf'[i] = total_rew_buf[i]
                    /\ reset_buf'[i] = reset_buf[i]
                    /\ timeout_buf'[i] = timeout_buf[i]
                    /\ progress_buf'[i] = progress_buf[i]
                    /\ running_progress_buf'[i] = running_progress_buf[i]
                    /\ randomize_buf'[i] = randomize_buf[i]
                    /\ success_buf'[i] = success_buf[i]
                    /\ failure_buf'[i] = failure_buf[i]
                    /\ error_buf'[i] = error_buf[i] ]_vars

\* reset_idx rewrote the rows of a proper subset (row i, now with a fresh
\* observation) while instance j outside it still holds what the step left
C8_Witness ==
    /\ last_call = "reset_done"
    /\ \E i, j \in Envs :
          /\ i \in ret.done_env_ids
          /\ obs_dict[i] = 2 * Unit
          /\ j \notin ret.done_env_ids
          /\ obs_dict[j] = Unit \div 2

\* C9: after allocation every buffer has exactly N rows, every reset flag is set and
\* every other buffer is zero/false; the first reset_done after construction reports
\* all N instances.
AllRows(buf) == DOMAIN buf = Envs /\ Cardinality(DOMAIN buf) = NumEnvs

C9_Allocation ==
    /\ phase = "running" =>
          /\ AllRows(obs_dict) /\ AllRows(rew_buf) /\ AllRows(total_rew_buf)
          /\ AllRows(reset_buf) /\ AllRows(timeout_buf) /\ AllRows(progress_buf)
          /\ AllRows(running_progress_buf) /\ AllRows(randomize_buf)
          /\ AllRows(success_buf) /\ AllRows(failure_buf) /\ AllRows(error_buf)
    /\ (phase = "running" /\ calls = 0) =>
          \A i \in Envs :
              /\ reset_buf[i] = 1
              /\ obs_dict[i] = 0 /\ rew_buf[i] = 0 /\ total_rew_buf[i] = 0
              /\ timeout_buf[i] = 0 /\ progress_buf[i] = 0
              /\ running_progress_buf[i] = 0 /\ randomize_buf[i] = 0
              /\ success_buf[i] = FALSE /\ failure_buf[i] = FALSE
              /\ error_buf[i] = FALSE
    /\ (phase = "running" /\ calls = 1 /\ last_call = "reset_done") =>
          ret.done_env_ids = Envs

\* the first call after construction was reset_done
C9_Witness ==
    /\ phase = "running" /\ calls = 1 /\ last_call = "reset_done"
    /\ ret.done_env_ids = Envs
    /\ Len(reset_idx_calls) = 1

\* C10 (as claimed): no observation element step returns lies outside
\* [-clip_obs, clip_obs].
C10_ReturnedObsClamped ==
    Stepped => \A i \in Envs : -clip_obs <= ret.obs[i] /\ ret.obs[i] <= clip_obs

\* C5: an additive noise group rebuilt by a global pass at frame count `step` holds
\* the configured bounds multiplied by the schedule factor: min(step, T)/T for a
\* linear schedule, 0 before T and 1 from T on for a constant one, 1 with none; the
\* factor is within [0, 1]. Range (-1, 1), linear, T = 100: (-0.5, 0.5) at step 50,
\* (-1, 1) at step 200.
Between(x, a, b) == (a <= x /\ x <= b) \/ (b <= x /\ x <= a)

\* the four effective bounds of a built entry, in the order of its configuration
EffectiveBounds(e) ==
    IF e.kind = "gaussian" THEN <<e.mu, e.var, e.mu_corr, e.var_corr>>
    ELSE <<e.lo, e.hi, e.lo_corr, e.hi_corr>>

ConfiguredBounds(c) ==
    <<c.range[1], c.range[2],
      IF c.range_correlated = << >> THEN 0 ELSE c.range_correlated[1],
      IF c.range_correlated = << >> THEN 0 ELSE c.range_correlated[2]>>

RebuiltAdditive(g) ==
    /\ last_pass.kind = "pass"
    /\ g \in last_pass.rebuilt
    /\ params_cfg[g].kind = "cfg"
    /\ params_cfg[g].operation = "additive"

C5_AdditiveScheduleBounds ==
    \A g \in {"observations", "actions"} :
        RebuiltAdditive(g) =>
            LET c == params_cfg[g]
                T == c.schedule_steps
                step == last_pass.step
                eff == EffectiveBounds(dr_randomizations[g])
                cfg == ConfiguredBounds(c)
            IN  \A k \in 1 .. 4 :
                    /\ c.schedule = "linear" => eff[k] * T = cfg[k] * Min(step, T)
                    /\ c.schedule = "constant" =>
                          eff[k] = IF step < T THEN 0 ELSE cfg[k]
                    /\ c.schedule = "none" => eff[k] = cfg[k]
                    /\ Between(eff[k], 0, cfg[k])
                    /\ (c.schedule = "linear" /\ T = 100 /\ c.range = <<-Unit, Unit>>
                        /\ c.distribution = "uniform") =>
                          /\ step = 50 => (eff[1] = -(Unit \div 2) /\ eff[2] = Unit \div 2)
                          /\ step = 200 => (eff[1] = -Unit /\ eff[2] = Unit)

\* the scenario's group rebuilt past the threshold, at step 200, with the full range
C5_Witness ==
    /\ RebuiltAdditive("actions")
    /\ params_cfg["actions"].schedule = "linear"
    /\ params_cfg["actions"].distribution = "uniform"
    /\ params_cfg["actions"].range = <<-Unit, Unit>>
    /\ last_pass.step = 200
    /\ dr_randomizations["actions"].lo = -Unit
    /\ dr_randomizations["actions"].hi = Unit

\* ... and below it, at step 50, with range (-0.5, 0.5)
C5_ReachedHalfway ==
    /\ RebuiltAdditive("actions")
    /\ params_cfg["actions"].schedule = "linear"
    /\ params_cfg["actions"].distribution = "uniform"
    /\ params_cfg["actions"].range = <<-Unit, Unit>>
    /\ last_pass.step = 50
    /\ dr_randomizations["actions"].lo = -(Unit \div 2)
    /\ dr_randomizations["actions"].hi = Unit \div 2

\* C2 (amended): every element step hands to pre_physics_step lies in
\* [-clip_actions, clip_actions]; with clip_actions = 1.0, an input element of 5.0
\* and no action-noise transform installed, the element handed on is exactly 1.0.
ActionsHanded == last_call = "step" /\ pre_physics_arg # << >>

C2_ActionsWithinClip ==
    ActionsHanded =>
        \A i \in Envs :
            /\ -clip_actions <= pre_physics_arg[i]
            /\ pre_physics_arg[i] <= clip_actions
            /\ (clip_actions = Unit /\ step_in[i] = 5 * Unit
                /\ ~IsBuilt(dr_randomizations["actions"])) =>
                   pre_physics_arg[i] = Unit

\* a step without action noise was handed 5.0 and -5.0 and passed on 1.0 and -1.0
C2_Witness ==
    /\ ActionsHanded
    /\ clip_actions = Unit
    /\ ~IsBuilt(dr_randomizations["actions"])
    /\ \E i \in Envs : step_in[i] = 5 * Unit /\ pre_physics_arg[i] = Unit

\* C2 (as claimed): ... with clip_actions = 1.0 and an input element of 5.0, the
\* element handed on is exactly 1.0, whatever the configuration.
C2_AsClaimed ==
    ActionsHanded =>
        \A i \in Envs :
            /\ -clip_actions <= pre_physics_arg[i]
            /\ pre_physics_arg[i] <= clip_actions
            /\ (clip_actions = Unit /\ step_in[i] = 5 * Unit) => pre_physics_arg[i] = Unit

\* C6 (as claimed): a noise group rebuilt at schedule factor 0 leaves the tensor it
\* is applied to as it is, and one rebuilt at factor 1 holds the configured range,
\* for both operations and both distributions, range_correlated at its default.
C6_NoOpAtFactorZero ==
    (/\ ActionsHanded
     /\ last_pass.kind = "pass"
     /\ "actions" \in last_pass.rebuilt
     /\ params_cfg["actions"].kind = "cfg"
     /\ params_cfg["actions"].range_correlated = << >>) =>
        LET c == params_cfg["actions"]
            factor == SchedScaling(c, last_pass.step)
        IN  /\ factor = 0 =>
                  \A i \in Envs :
                      pre_physics_arg[i] = Clamp(step_in[i], clip_actions)
            /\ factor = Unit =>
                  EffectiveBounds(dr_randomizations["actions"]) = ConfiguredBounds(c)

\* the failing case: a scaling group at factor 0 doubled the input 0.5
C6_Doubled ==
    /\ ActionsHanded
    /\ last_pass.kind = "pass"
    /\ "actions" \in last_pass.rebuilt
    /\ params_cfg["actions"].operation = "scaling"
    /\ SchedScaling(params_cfg["actions"], last_pass.step) = 0
    /\ \E i \in Envs : step_in[i] = Unit \div 2 /\ pre_physics_arg[i] = Unit

\* C3: the baseline snapshot of an instance's property is captured once, holds the
\* values the property had before any perturbation, is never modified afterwards,
\* and every randomization event sets each attribute to snapshot (+|*) new sample,
\* whatever the live value was.
PassDone == last_call = "apply_randomizations" /\ err = "none" /\ last_pass.kind = "pass"

\* the attribute group g took effect in the last pass
AppliedInLastPass(c) == ~c.setup_only \/ ~last_pass.initialized

FromSnapshot(i, a) ==
    LET sample == SampleAt(last_pass.stream, DrawIndex(i, a))
    IN  IF actor_cfg.attrs[a].operation = "additive"
        THEN original_props[i][a] + sample
        ELSE original_props[i][a] * sample

C3_SnapshotPristine ==
    \A i \in Envs :
        /\ original_props[i] # << >> =>
               \A a \in Attrs : original_props[i][a] = BaseProp(i)
        /\ (/\ PassDone
            /\ i \in last_pass.processed
            /\ \A a \in Attrs : AppliedInLastPass(actor_cfg.attrs[a])) =>
               \A a \in Attrs : props[i][a] = FromSnapshot(i, a)

C3_SnapshotFrozen ==
    \A i \in Envs : original_props[i] # << >> => original_props'[i] = original_props[i]

C3_NonCompounding == [](C3_SnapshotPristine) /\ [][C3_SnapshotFrozen]_vars

\* a second (or later) randomization event re-perturbed an instance
C3_Witness ==
    /\ PassDone
    /\ ~last_pass.first
    /\ \E i \in last_pass.processed :
          /\ \A a \in Attrs : AppliedInLastPass(actor_cfg.attrs[a])
          /\ original_props[i] # << >>
          /\ \A a \in Attrs : props[i][a] # original_props[i][a]

\* C4: a setup_only group is applied to an instance at most once, and only by a
\* pass that runs before simulation initialization completes: such a pass applies
\* it once to every instance that has the actor; from then on no pass applies it
\* and the value it controls stays as it is, whatever the instance's eligibility.
SetupOnlyGroup(g) ==
    IF g = "scale" THEN actor_cfg.scale.kind = "cfg" /\ actor_cfg.scale.setup_only
    ELSE actor_cfg.attrs[g].setup_only

C4_AppliedOnce ==
    \A i \in Envs : \A g \in Groups :
        /\ setup_applied[i][g] <= 1
        /\ setup_applied[i][g] = 1 => (SetupOnlyGroup(g) /\ handle[i] # -1)
        /\ (PassDone /\ ~last_pass.initialized /\ SetupOnlyGroup(g) /\ handle[i] # -1) =>
               setup_applied[i][g] = 1

C4_SkippedLater ==
    sim_initialized =>
        \A i \in Envs :
            /\ setup_applied'[i] = setup_applied[i]
            /\ \A a \in Attrs : SetupOnlyGroup(a) => props'[i][a] = props[i][a]
            /\ SetupOnlyGroup("scale") => actor_scale'[i] = actor_scale[i]

C11_ExtrasEntries ==
    Stepped =>
        /\ {"time_outs", "error_masks"} \subseteq DOMAIN extras
        /\ DOMAIN extras["time_outs"] = Envs
        /\ DOMAIN extras["error_masks"] = Envs
        /\ \A i \in Envs :
              extras["time_outs"][i] =
                  (IF progress_buf[i] >= MaxEpisodeLength - 1 /\ reset_buf[i] # 0
                   THEN 1 ELSE 0)
        /\ ret.extras = extras

\* post_physics_step had left an entry of its own and a time_outs entry that differs
\* from the timeout vector; step returned the vector
C11_Witness ==
    /\ Stepped
    /\ "successes" \in DOMAIN extras
    /\ \E i \in Envs : error_buf[i]
    /\ \E i \in Envs : timeout_buf[i] = 0 /\ ret.extras["time_outs"][i] = 0

\* C12: with the external sampler configured, an apply_randomizations call ends
\* with a fatal error, no actor property or scale is set and no snapshot written in
\* that call, and the error ends the process (nothing runs after it).
PassCalled == last_call' = "apply_randomizations" /\ calls' = calls + 1

C12_PassFailsFast ==
    (PassCalled /\ actor_params_generator) =>
        /\ err' = IF phase = "create_sim" /\ ~first_randomization
                  THEN "AttributeError" ELSE "AssertionError"
        /\ props' = props
        /\ actor_scale' = actor_scale
        /\ original_props' = original_props
        /\ setup_applied' = setup_applied
        /\ first_randomization' = first_randomization

C12_ErrorStays == err # "none" => err' = err

C12_ExternSamplerFatal == [][C12_PassFailsFast]_vars /\ [][C12_ErrorStays]_vars

\* the assertion stopped a pass in which instances were due for randomization
C12_Witness ==
    /\ last_call = "apply_randomizations"
    /\ actor_params_generator
    /\ err = "AssertionError"
    /\ last_pass.kind = "pass"
    /\ last_pass.do_nonenv
    /\ \E i \in last_pass.env_ids : handle[i] # -1 /\ props[i]["friction"] = BaseProp(i)

\* C14 (as claimed): a pass whose actor names a property kind without a getter
\* skips it and completes: no error, and the bootstrap flag is cleared.
C14_UnregisteredSkipped ==
    (/\ last_call = "apply_randomizations"
     /\ last_pass.kind = "pass"
     /\ last_pass.processed # {}
     /\ prop_name \notin ParamGetters) =>
        /\ err = "none"
        /\ ~first_randomization

\* C18: an apply_randomizations call performs the global randomization exactly when
\* it is the first call or current_step - last_rand_step >= frequency; it sets
\* last_rand_step to current_step exactly then, and rebuilds the configured noise
\* groups exactly then.
PassRan == PassCalled /\ ~(phase = "create_sim" /\ ~first_randomization)

C18_Due == first_randomization \/ frame_count - last_rand_step >= rand_freq

C18_GlobalPass ==
    PassRan =>
        /\ last_pass'.do_nonenv = C18_Due
        /\ last_rand_step' = IF C18_Due THEN frame_count ELSE last_rand_step
        /\ last_pass'.rebuilt =
              IF C18_Due THEN {g \in DOMAIN params_cfg : params_cfg[g].kind = "cfg"} ELSE {}

C18_ReachedBoundary ==
    /\ PassDone
    /\ ~last_pass.first
    /\ last_pass.do_nonenv
    /\ rand_freq = ControlFreqInv
    /\ last_pass.step = ControlFreqInv

\* C13: a pass leaves an instance in which the actor's handle is absent (-1) alone:
\* no snapshot, no property, no scale, no sample application for it; the other
\* instances of the pass are still worked on and the pass completes.
C13_AbsentHandle ==
    PassRan =>
        /\ \A i \in Envs :
              handle[i] = -1 =>
                  /\ props'[i] = props[i]
                  /\ actor_scale'[i] = actor_scale[i]
                  /\ original_props'[i] = original_props[i]
                  /\ setup_applied'[i] = setup_applied[i]
                  /\ i \notin last_pass'.processed
        /\ err' = "none"
        /\ ~first_randomization'
        /\ \A i \in last_pass'.env_ids :
              (last_pass'.do_nonenv /\ handle[i] # -1) =>
                  /\ i \in last_pass'.processed
                  /\ original_props'[i] # << >>

C13_AbsentHandleSkipped == [][C13_AbsentHandle]_vars

\* a pass met an instance without the actor and re-sampled another one
C13_Witness ==
    /\ PassDone
    /\ \E i, j \in last_pass.env_ids :
          /\ handle[i] = -1
          /\ original_props[i] = << >>
          /\ \A a \in Attrs : props[i][a] = BaseProp(i)
          /\ j \in last_pass.processed
          /\ \E a \in Attrs : props[j][a] # BaseProp(j)

\* C19: a call after the bootstrap call works only on instances whose randomize
\* counter is >= the frequency and whose reset flag is set at the call; the bootstrap
\* call takes all N instances whatever their flags and counters.
C19_Eligibility ==
    (PassRan /\ err' = "none") =>
        IF first_randomization
        THEN /\ last_pass'.env_ids = Envs
             /\ last_pass'.processed = {i \in Envs : handle[i] # -1}
        ELSE \A i \in Envs :
                 (\/ i \in last_pass'.env_ids
                  \/ i \in last_pass'.processed
                  \/ props'[i] # props[i]
                  \/ actor_scale'[i] # actor_scale[i]) =>
                     (randomize_buf[i] >= rand_freq /\ reset_buf[i] # 0)

C19_OnlyAtEpisodeBoundary == [][C19_Eligibility]_vars

\* a later call re-randomized one instance and passed over another that has the actor
C19_Witness ==
    /\ PassDone
    /\ ~last_pass.first
    /\ last_pass.processed # {}
    /\ \E j \in Envs : j \notin last_pass.env_ids /\ handle[j] # -1

\* C15 (as claimed): whatever passes and steps have run, the configuration mapping
\* still holds every group as it was loaded, and a pass given that mapping rebuilds
\* its groups without error.
C15_ConfigUnchanged ==
    /\ ConfigMapping = params_cfg
    /\ (last_call = "apply_randomizations" /\ last_pass.kind = "pass") => err = "none"

\* C16 (amended): in every step call that returns, pre_physics_step runs once, then
\* simulate control_freq_inv times, then post_physics_step once, then the control-step
\* counter goes up by one, then the timeout vector is computed.
FullStepEvents ==
    <<Run("pre_physics_step", 1), Run("simulate", ControlFreqInv),
      Run("post_physics_step", 1), Run("control_steps", 1), Run("timeout_buf", 1)>>

C16_EventsOfReturnedStep == Stepped => step_events = FullStepEvents

C16_CountersOfReturnedStep ==
    (last_call' = "step" /\ calls' = calls + 1 /\ err' = "none") =>
        /\ frame_count' = frame_count + ControlFreqInv
        /\ control_steps' = control_steps + 1
        /\ DOMAIN pre_physics_arg' = Envs

C17_StepRandomizes ==
    Stepped =>
        /\ \E k \in DOMAIN step_events : step_events[k].event = "apply_randomizations"
        /\ last_step = frame_count

\* C20 (as claimed): what pre_physics_step receives is the action-noise transform
\* applied to the clamped input batch (the clamped batch itself without a transform).
C20_ClampThenNoise ==
    ActionsHanded =>
        LET e == dr_randomizations["actions"]
            clamped == [i \in Envs |-> Clamp(step_in[i], clip_actions)]
        IN  IF IsBuilt(e)
            THEN \E fresh \in FreshBatches(e) :
                    pre_physics_arg = NoiseLambda(e, clamped, e.corr, fresh)
            ELSE pre_physics_arg = clamped

\* C21: the correlated sample of a built noise group is drawn by the first
\* application after the group was (re)built and reused as it is by every later
\* application; a pass that rebuilds the group discards it, a pass that does not
\* leaves the group alone; the independent sample is a fresh draw in every
\* application.
StepCalled == last_call' = "step" /\ calls' = calls + 1

C21_CorrelatedSample ==
    LET e == dr_randomizations["actions"]
        e2 == dr_randomizations'["actions"]
    IN  /\ (StepCalled /\ IsBuilt(e)) =>
              /\ e2.corr # << >>
              /\ e.corr # << >> => e2.corr = e.corr
              /\ \E fresh \in FreshBatches(e) :
                    \A i \in Envs :
                        pre_physics_arg'[i] =
                            Clamp(ApplyOp(e.op, step_in'[i],
                                          NoiseOf(e, e2.corr[i], fresh[i])),
                                  clip_actions)
        /\ PassRan =>
              IF "actions" \in last_pass'.rebuilt
              THEN e2.corr = << >>
              ELSE e2 = e

C21_CorrelatedReused == [][C21_CorrelatedSample]_vars

\* the second application after one rebuild used the non-zero sample of the first
C21_Witness ==
    /\ ActionsHanded
    /\ last_pass.kind = "pass"
    /\ "actions" \in last_pass.rebuilt
    /\ frame_count - last_pass.step = 2 * ControlFreqInv
    /\ IsBuilt(dr_randomizations["actions"])
    /\ \E i \in Envs : dr_randomizations["actions"].corr[i] = Unit

\* C24 (as claimed): the process never exits on a viewer quit after pre_physics_step
\* of a step has run and before that step has returned.
C24_NoExitInsideStep ==
    ~(err = "SystemExit" /\ last_call = "step" /\ step_events # FullStepEvents)

\* C26 (as claimed): a call after bootstrap that resets an instance's randomize
\* counter to 0 also re-samples that instance's actor properties.
C26_ZeroedThenSampled ==
    (PassRan /\ ~first_randomization) =>
        \A i \in Envs :
            (randomize_buf[i] # 0 /\ randomize_buf'[i] = 0) =>
                i \in last_pass'.processed

C26_CounterZeroedOnlyWhenSampled == [][C26_ZeroedThenSampled]_vars

\* C27 (as claimed): after a pass that rebuilt both groups, each group's transform
\* applies the operation configured for that group.
C27_OwnOperation ==
    (last_pass.kind = "pass" /\ last_pass.rebuilt = {"observations", "actions"}) =>
        \A g \in {"observations", "actions"} :
            IsBuilt(dr_randomizations[g]) =>
                dr_randomizations[g].op = OpOf(params_cfg[g].operation)

\* C28: a pass writes an instance's property back exactly when every attribute of
\* the property was applied: with the simulation initialized and an attribute marked
\* setup_only, the property keeps all its values, those of the other attributes too.
C28_Setter ==
    (PassRan /\ err' = "none") =>
        \A i \in last_pass'.processed :
            IF sim_initialized /\ \E a \in Attrs : actor_cfg.attrs[a].setup_only
            THEN props'[i] = props[i]
            ELSE \A a \in Attrs :
                    props'[i][a] =
                        LET sample == SampleAt(last_pass'.stream, DrawIndex(i, a))
                        IN  IF actor_cfg.attrs[a].operation = "additive"
                            THEN original_props'[i][a] + sample
                            ELSE original_props'[i][a] * sample

C28_SetterOnlyWhenAllApplied == [][C28_Setter]_vars

\* a pass after initialization worked on an instance whose friction is setup_only:
\* its restitution, which is not, still has the value it started with
C28_Witness ==
    /\ PassDone
    /\ last_pass.initialized
    /\ actor_cfg.attrs["friction"].setup_only
    /\ ~actor_cfg.attrs["restitution"].setup_only
    /\ \E i \in last_pass.processed : props[i]["restitution"] = BaseProp(i)

\* C29: after every step, error_masks[i] is 1 for every instance, whatever its
\* error flag.
C29_ErrorMasksAllOnes ==
    Stepped => \A i \in Envs : extras["error_masks"][i] = 1 /\ ret.extras["error_masks"][i] = 1

\* a step left an error flag set and cleared on different instances
C29_Witness ==
    /\ Stepped
    /\ \E i, j \in Envs : error_buf[i] /\ ~error_buf[j]
    /\ \A i \in Envs : extras["error_masks"][i] = 1

\* C22 (as claimed): in a step that applies a built uniform actions group, the
\* correlated term lies in [lo_corr, hi_corr] and, for an additive group, the noise
\* added to each action lies in [lo + lo_corr, hi + hi_corr].
C22_UniformWithinIntervals ==
    LET e == dr_randomizations["actions"]
    IN  (ActionsHanded /\ IsBuilt(e) /\ e.kind = "uniform" /\ e.corr # << >>) =>
            \A i \in Envs :
                LET correlated == Mul(e.corr[i], e.hi_corr - e.lo_corr) + e.lo_corr
                    noise == pre_physics_arg[i] - step_in[i]
                IN  /\ e.lo_corr <= correlated /\ correlated <= e.hi_corr
                    /\ e.op = "add" =>
                          /\ e.lo + e.lo_corr <= noise
                          /\ noise <= e.hi + e.hi_corr

\* C23 (as claimed): a group rebuilt from a configuration without range_correlated
\* has the correlated bounds of the default (0, 0) when additive and (1, 1) when
\* scaling.
ClaimedDefault(c) ==
    IF c.operation = "additive" THEN <<0, 0>> ELSE <<Unit, Unit>>

C23_DefaultByOperation ==
    last_pass.kind = "pass" =>
        \A g \in last_pass.rebuilt :
            LET c == params_cfg[g]
                e == dr_randomizations[g]
                claimed == BuildGroup([c EXCEPT !.range_correlated = ClaimedDefault(c)],
                                      last_pass.step)
            IN  (~randomize /\ IsBuilt(e) /\ c.range_correlated = << >>) =>
                    IF e.kind = "uniform"
                    THEN e.lo_corr = claimed.lo_corr /\ e.hi_corr = claimed.hi_corr
                    ELSE e.mu_corr = claimed.mu_corr /\ e.var_corr = claimed.var_corr

\* C25 (as claimed): a pass that works on a property whose registered getter
\* returns a single value, not a list, completes without error, as it does for a
\* list-valued property.
C25_SingleValueHandled ==
    (/\ last_call = "apply_randomizations"
     /\ last_pass.kind = "pass"
     /\ last_pass.processed # {}
     /\ prop_name \in ParamGetters \ ListGetters) =>
        /\ err = "none"
        /\ ~first_randomization

\* C30: in every sequence of _create_sim_once calls, once a call has invoked the
\* backend's create_sim and got a handle, no later call invokes it and every later
\* call returns that handle, whatever its arguments; until then every call invokes
\* it.
C30_CreatedOnce ==
    \A j \in DOMAIN sim_log :
        LET got == {k \in 1 .. (j - 1) : sim_log[k].invoked /\ sim_log[k].ret # None}
        IN  /\ sim_log[j].invoked <=> got = {}
            /\ \A k \in got : sim_log[j].ret = sim_log[k].ret

\* a failed creation was retried, and a later call with other arguments got the
\* handle of the retry without a creation
C30_Witness ==
    /\ Len(sim_log) >= 3
    /\ sim_log[1].invoked /\ sim_log[1].ret = None
    /\ sim_log[2].invoked /\ sim_log[2].ret # None
    /\ ~sim_log[3].invoked
    /\ sim_log[3].args # sim_log[2].args
    /\ sim_log[3].ret = sim_log[2].ret

====
